---------------------------- MODULE Spec2Model ----------------------------
(***************************************************************************)
(* A model of nodx (src/src/nodx.ts): the node classes NodeText,           *)
(* NodeAttribute and NodeElement, escapeHtml, and the builder functions    *)
(* text, raw, attr, el, elVoid and group.                                  *)
(*                                                                         *)
(* JavaScript values are records with a field k (the kind).  A string is   *)
(* [k |-> "str", s |-> <<c1, ..., cn>>], a sequence of one-character       *)
(* strings, so that replacing and concatenating are computed and not       *)
(* assumed.  A call completes with a value or with Thrown (a TypeError).   *)
(*                                                                         *)
(* The specifications share the variables:                                 *)
(*   Spec       a caller assembles a child list (args), wraps it into      *)
(*              elements and renders the result (out);                     *)
(*   SpecCalls  a caller makes one call on a string (or ill-typed) input   *)
(*              and feeds each result to the next call (hist);             *)
(*   SpecBuilders  a caller calls ifx, mapx, classx or an element helper   *)
(*              on a list and renders the result (hist);                   *)
(*   SpecRender  callers render one tree (args) step by step, each with    *)
(*              its own call stack (run), their steps interleaved.         *)
(***************************************************************************)
EXTENDS Integers, Sequences, FiniteSets

VARIABLES args, out, hist, run

vars == <<args, out, hist, run>>

---------------------------------------------------------------------------
(* Bounds of the model *)

\* longest child list passed to one constructor call
MaxChildren == 3
\* most nodes (elements, texts, attributes, foreign values) held at a time
MaxNodes == 4
\* longest input string of a call in SpecCalls
MaxLen == 2
\* longest chain of calls fed with each other's results in SpecCalls
MaxChain == 3

---------------------------------------------------------------------------
(* JavaScript values *)

Null == [k |-> "null"]
Undefined == [k |-> "undefined"]
Num(n) == [k |-> "num", n |-> n]
Str(s) == [k |-> "str", s |-> s]
\* an object that is no instance of the three node classes
Obj == [k |-> "obj"]
\* the completion of a call that raised a TypeError
Thrown == [k |-> "throw"]

NodeText(t) == [k |-> "text", text |-> t]
NodeAttribute(n, v) == [k |-> "attr", name |-> n, value |-> v]
NodeElement(v, n, c) == [k |-> "el", isVoid |-> v, name |-> n, children |-> c]

IsNode(v) == v.k \in {"text", "attr", "el"}

\* the characters of a digit string, for numbers 0..9
Digit(n) == <<"0", "1", "2", "3", "4", "5", "6", "7", "8", "9">>[n + 1]

\* String(v), as string concatenation and template literals apply it
ToString(v) ==
  CASE v.k = "str" -> v.s
    [] v.k = "null" -> <<"n", "u", "l", "l">>
    [] v.k = "undefined" -> <<"u", "n", "d", "e", "f", "i", "n", "e", "d">>
    [] v.k = "num" -> <<Digit(v.n)>>
    [] OTHER -> <<"[", "o", "b", "j", "e", "c", "t", " ", "O", "b", "j", "e", "c", "t", "]">>

---------------------------------------------------------------------------
(* escapeHtml *)

RECURSIVE ReplaceAll(_, _, _)
\* s.replace(/c/g, r) for a one-character pattern c
ReplaceAll(s, c, r) ==
  IF s = <<>> THEN <<>>
  ELSE (IF Head(s) = c THEN r ELSE <<Head(s)>>) \o ReplaceAll(Tail(s), c, r)

EntAmp == <<"&", "a", "m", "p", ";">>
EntLt == <<"&", "l", "t", ";">>
EntGt == <<"&", "g", "t", ";">>
EntQuot == <<"&", "q", "u", "o", "t", ";">>
EntApos == <<"&", "#", "3", "9", ";">>

StartsWith(s, t) == Len(t) <= Len(s) /\ SubSeq(s, 1, Len(t)) = t

\* a mutation: the ampersand replaced last, after the entities were written
ReplaceChainAmpLast(s) ==
  ReplaceAll(ReplaceAll(ReplaceAll(ReplaceAll(ReplaceAll(s,
    "<", EntLt), ">", EntGt), "\"", EntQuot), "'", EntApos), "&", EntAmp)

RECURSIVE ReplaceChainKeepEntities(_)
\* a mutation: an ampersand that already begins one of the five entities
\* is left as it is
ReplaceChainKeepEntities(s) ==
  IF s = <<>> THEN <<>>
  ELSE LET c == Head(s)
           keep == c = "&" /\ \E e \in {EntAmp, EntLt, EntGt, EntQuot, EntApos} :
                                 StartsWith(s, e)
           r == CASE keep -> <<c>>
                  [] c = "&" /\ ~keep -> EntAmp
                  [] c = "<" -> EntLt
                  [] c = ">" -> EntGt
                  [] c = "\"" -> EntQuot
                  [] c = "'" -> EntApos
                  [] OTHER -> <<c>>
       IN  r \o ReplaceChainKeepEntities(Tail(s))

\* a mutation: the double quote is not replaced
ReplaceChainNoQuot(s) ==
  ReplaceAll(ReplaceAll(ReplaceAll(ReplaceAll(s,
    "&", EntAmp), "<", EntLt), ">", EntGt), "'", EntApos)

\* the five chained global replaces, in the order of the source
ReplaceChain(s) ==
  ReplaceAll(ReplaceAll(ReplaceAll(ReplaceAll(ReplaceAll(s,
    "&", EntAmp), "<", EntLt), ">", EntGt), "\"", EntQuot), "'", EntApos)

\* (unsafe ?? "") and the chain; a value with no replace method raises
escapeHtml(unsafe) ==
  IF unsafe.k \in {"null", "undefined"} THEN Str(ReplaceChain(<<>>))
  ELSE IF unsafe.k = "str" THEN Str(ReplaceChain(unsafe.s))
  ELSE Thrown

---------------------------------------------------------------------------
(* render *)

\* NodeText.render
NodeTextRender(node) == node.text

\* a mutation: the value written as it is
NodeAttributeRenderUnescaped(node) ==
  IF node.name = Str(<<>>) THEN Str(<<>>)
  ELSE Str(<<" ">> \o ToString(node.name) \o <<"=", "\"">>
           \o ToString(node.value) \o <<"\"">>)

\* NodeAttribute.render
NodeAttributeRender(node) ==
  IF node.name = Str(<<>>) THEN Str(<<>>)
  ELSE LET e == escapeHtml(node.value)
       IN  IF e = Thrown THEN Thrown
           ELSE Str(<<" ">> \o ToString(node.name) \o <<"=", "\"">> \o e.s \o <<"\"">>)

\* child instanceof NodeAttribute
IsAttributeChild(child) == child.k = "attr"

\* a mutation: every child that is neither an attribute nor absent is content
IsContentChildLoose(child) == child.k \notin {"attr", "null", "undefined"}

\* child instanceof NodeElement || child instanceof NodeText
IsContentChild(child) == child.k \in {"el", "text"}

\* a mutation: the rendered child is put in front of the accumulator
AddFront(acc, r) ==
  IF acc = Thrown \/ r = Thrown THEN Thrown ELSE Str(ToString(r) \o acc.s)

\* acc += r, where r is the completion of child.render()
Add(acc, r) ==
  IF acc = Thrown \/ r = Thrown THEN Thrown ELSE Str(acc.s \o ToString(r))

\* a mutation: no test of isVoid
ElementMarkupNoVoid(isVoid, name, childrenAttributes, childrenNodes) ==
  IF childrenAttributes = Thrown \/ childrenNodes = Thrown THEN Thrown
  ELSE IF name = Str(<<>>) THEN childrenNodes
  ELSE Str(<<"<">> \o ToString(name) \o childrenAttributes.s \o <<">">>
           \o childrenNodes.s
           \o <<"<", "/">> \o ToString(name) \o <<">">>)

\* a mutation: isVoid tested before the empty name
ElementMarkupVoidFirst(isVoid, name, childrenAttributes, childrenNodes) ==
  IF childrenAttributes = Thrown \/ childrenNodes = Thrown THEN Thrown
  ELSE IF isVoid
    THEN Str(<<"<">> \o ToString(name) \o childrenAttributes.s \o <<">">>)
  ELSE IF name = Str(<<>>) THEN childrenNodes
  ELSE Str(<<"<">> \o ToString(name) \o childrenAttributes.s \o <<">">>
           \o childrenNodes.s
           \o <<"<", "/">> \o ToString(name) \o <<">">>)

\* a mutation: an element with the empty name passes its attributes on
ElementMarkupAttrsThrough(isVoid, name, childrenAttributes, childrenNodes) ==
  IF childrenAttributes = Thrown \/ childrenNodes = Thrown THEN Thrown
  ELSE IF name = Str(<<>>) THEN Str(childrenAttributes.s \o childrenNodes.s)
  ELSE IF isVoid
    THEN Str(<<"<">> \o ToString(name) \o childrenAttributes.s \o <<">">>)
  ELSE Str(<<"<">> \o ToString(name) \o childrenAttributes.s \o <<">">>
           \o childrenNodes.s
           \o <<"<", "/">> \o ToString(name) \o <<">">>)

\* the value the element's render returns from its two accumulators
ElementMarkup(isVoid, name, childrenAttributes, childrenNodes) ==
  IF childrenAttributes = Thrown \/ childrenNodes = Thrown THEN Thrown
  ELSE IF name = Str(<<>>) THEN childrenNodes
  ELSE IF isVoid
    THEN Str(<<"<">> \o ToString(name) \o childrenAttributes.s \o <<">">>)
  ELSE Str(<<"<">> \o ToString(name) \o childrenAttributes.s \o <<">">>
           \o childrenNodes.s
           \o <<"<", "/">> \o ToString(name) \o <<">">>)

RECURSIVE Render(_)
RECURSIVE Accumulate(_, _, _)

\* the loop over this.children: the pair of accumulators after the children
\* from position i on are added to <<attrs, nodes>>
Accumulate(children, i, acc) ==
  IF i > Len(children) THEN acc
  ELSE LET child == children[i]
           a == IF IsAttributeChild(child) THEN Add(acc[1], Render(child)) ELSE acc[1]
           c == IF IsContentChild(child) THEN Add(acc[2], Render(child)) ELSE acc[2]
       IN  Accumulate(children, i + 1, <<a, c>>)

\* the positions of children that hold no attribute named again further on
LastOfName(children) ==
  {i \in 1..Len(children) :
     children[i].k = "attr"
       => ~\E j \in (i + 1)..Len(children) :
             children[j].k = "attr" /\ children[j].name = children[i].name}

RECURSIVE Pick(_, _, _)
\* the children at the positions of keep, from position i on, in order
Pick(children, keep, i) ==
  IF i > Len(children) THEN <<>>
  ELSE (IF i \in keep THEN <<children[i]>> ELSE <<>>) \o Pick(children, keep, i + 1)

\* a mutation: of the attributes of one name only the last is rendered
NodeElementRenderDedup(node) ==
  LET kids == Pick(node.children, LastOfName(node.children), 1)
      acc == Accumulate(kids, 1, <<Str(<<>>), Str(<<>>)>>)
  IN  ElementMarkup(node.isVoid, node.name, acc[1], acc[2])

\* NodeElement.render
NodeElementRender(node) ==
  LET acc == Accumulate(node.children, 1, <<Str(<<>>), Str(<<>>)>>)
  IN  ElementMarkup(node.isVoid, node.name, acc[1], acc[2])

\* node.render(): the method of the node's class; a value with no render
\* method raises
Render(node) ==
  CASE node.k = "text" -> NodeTextRender(node)
    [] node.k = "attr" -> NodeAttributeRender(node)
    [] node.k = "el" -> NodeElementRender(node)
    [] OTHER -> Thrown

---------------------------------------------------------------------------
(* the builder functions *)

attr(name, value) == NodeAttribute(name, value)
el(tag, children) == NodeElement(FALSE, tag, children)
elVoid(tag, children) == NodeElement(TRUE, tag, children)
\* a mutation: the payload stored as it is
textUnescaped(t) == NodeText(t)
text(t) == LET e == escapeHtml(t) IN IF e = Thrown THEN Thrown ELSE NodeText(e)
raw(t) == NodeText(t)
group(nodes) == NodeElement(FALSE, Str(<<>>), nodes)

\* a mutation: the condition is not consulted
ifxAlways(condition, nodes) == group(nodes)

\* ifx(condition, ...nodes)
ifx(condition, nodes) == IF condition THEN group(nodes) ELSE group(<<>>)

\* an array, a boolean, and an object with its enumerable keys in for-in order
Arr(xs) == [k |-> "array", items |-> xs]
Bool(b) == [k |-> "bool", b |-> b]
Dict(pairs) == [k |-> "dict", pairs |-> pairs]

\* the mapping functions a caller passes to mapx
MapFns == {"node", "text", "li"}

\* fn(item): item => item, item => text(item), item => el("li", text(item))
ApplyFn(fn, item) ==
  CASE fn = "node" -> item
    [] fn = "text" -> text(item)
    [] fn = "li" -> IF text(item) = Thrown THEN Thrown
                    ELSE el(Str(<<"l", "i">>), <<text(item)>>)

\* items.map(fn); a value with no map method raises, and so does a raising fn
MapItems(items, fn) ==
  IF items.k # "array" THEN Thrown
  ELSE LET mapped == [i \in 1..Len(items.items) |-> ApplyFn(fn, items.items[i])]
       IN  IF \E i \in 1..Len(mapped) : mapped[i] = Thrown THEN Thrown ELSE Arr(mapped)

\* a mutation: the mapped nodes in reverse order
mapxReversed(items, fn) ==
  LET mapped == MapItems(items, fn)
  IN  IF mapped = Thrown THEN Thrown
      ELSE group([i \in 1..Len(mapped.items) |->
                    mapped.items[Len(mapped.items) + 1 - i]])

\* mapx(items, fn)
mapx(items, fn) ==
  LET mapped == MapItems(items, fn)
  IN  IF mapped = Thrown THEN Thrown ELSE group(mapped.items)

RECURSIVE Join(_, _)
\* list.join(sep)
Join(list, sep) ==
  IF list = <<>> THEN <<>>
  ELSE IF Len(list) = 1 THEN Head(list)
  ELSE Head(list) \o sep \o Join(Tail(list), sep)

RECURSIVE TruthyKeys(_)
\* a mutation: the keys of every truthy value are pushed
TruthyKeys(pairs) ==
  IF pairs = <<>> THEN <<>>
  ELSE (IF Head(pairs)[2].k \notin {"null", "undefined"} /\ Head(pairs)[2] # Bool(FALSE)
          THEN <<Head(pairs)[1]>> ELSE <<>>)
       \o TruthyKeys(Tail(pairs))

RECURSIVE TrueKeys(_)
\* the for-in loop over one object: the keys pushed, those whose value is the
\* boolean true
TrueKeys(pairs) ==
  IF pairs = <<>> THEN <<>>
  ELSE (IF Head(pairs)[2] = Bool(TRUE) THEN <<Head(pairs)[1]>> ELSE <<>>)
       \o TrueKeys(Tail(pairs))

\* the keys for-in enumerates with their values: those of an object, and the
\* indices of an array
Entries(item) ==
  IF item.k = "array"
    THEN [i \in 1..Len(item.items) |-> <<<<Digit(i - 1)>>, item.items[i]>>]
    ELSE item.pairs

\* what one argument of classx pushes to classList: a string itself, an
\* object its keys (typeof null is "object" too, and null has no keys)
Pushed(item) ==
  IF item.k = "str" THEN <<item.s>>
  ELSE IF item.k \in {"dict", "array"} THEN TrueKeys(Entries(item))
  ELSE <<>>

RECURSIVE ClassList(_)
\* classList after the loop over the arguments
ClassList(classes) ==
  IF classes = <<>> THEN <<>>
  ELSE Pushed(Head(classes)) \o ClassList(Tail(classes))

\* classx(...classes)
classx(classes) == attr(Str(<<"c", "l", "a", "s", "s">>), Str(Join(ClassList(classes), <<" ">>)))

---------------------------------------------------------------------------
(* Spec: assembling and rendering a tree *)

\* the result slot before any render call
NotRun == [k |-> "notrun"]

TextInputs == {Str(<<"<">>)}
AttrNames == {Str(<<"i", "d">>)}
AttrValues == {Str(<<"\"">>), Null}
Foreign == {Null, Undefined, Num(7), Obj}
Tags == {Str(<<"d", "i", "v">>), Str(<<>>)}

RECURSIVE Size(_)
RECURSIVE SizeAll(_)
\* the number of values in a tree, the root included
Size(v) == IF v.k = "el" THEN 1 + SizeAll(v.children) ELSE 1
SizeAll(s) == IF s = <<>> THEN 0 ELSE Size(Head(s)) + SizeAll(Tail(s))

CanPush == Len(args) < MaxChildren /\ SizeAll(args) < MaxNodes

\* the callers of the stepwise render
Callers == {"c1", "c2"}

\* a caller with no render call under way and none completed
Idle == [stack |-> <<>>, result |-> NotRun, visited |-> <<>>, overlap |-> FALSE]

Init ==
  /\ args = <<>>
  /\ out = NotRun
  /\ hist = <<>>
  /\ run = [c \in Callers |-> Idle]

\* text(v) is appended to the child list; a call that raises appends nothing
Text(v) ==
  /\ CanPush
  /\ IF text(v) = Thrown
       THEN UNCHANGED <<args, out>>
       ELSE args' = Append(args, text(v)) /\ out' = NotRun
  /\ UNCHANGED <<hist, run>>

\* attr(n, v) is appended to the child list
Attr(n, v) ==
  /\ CanPush
  /\ args' = Append(args, attr(n, v))
  /\ out' = NotRun
  /\ UNCHANGED <<hist, run>>

\* a value that is no node is appended to the child list
PassForeign(f) ==
  /\ CanPush
  /\ args' = Append(args, f)
  /\ out' = NotRun
  /\ UNCHANGED <<hist, run>>

\* the values before the last n of the child list, and the last n
Kept(n) == SubSeq(args, 1, Len(args) - n)
Taken(n) == SubSeq(args, Len(args) - n + 1, Len(args))

CanWrap(n) == n \in 0..Len(args) /\ SizeAll(args) < MaxNodes

\* el(tag, ...) of the last n values takes their place in the child list
El(tag, n) ==
  /\ CanWrap(n)
  /\ args' = Append(Kept(n), el(tag, Taken(n)))
  /\ out' = NotRun
  /\ UNCHANGED <<hist, run>>

\* elVoid(tag, ...) of the last n values takes their place
ElVoid(tag, n) ==
  /\ CanWrap(n)
  /\ args' = Append(Kept(n), elVoid(tag, Taken(n)))
  /\ out' = NotRun
  /\ UNCHANGED <<hist, run>>

\* group(...) of the last n values takes their place
Group(n) ==
  /\ CanWrap(n)
  /\ args' = Append(Kept(n), group(Taken(n)))
  /\ out' = NotRun
  /\ UNCHANGED <<hist, run>>

\* ifx(c, ...) of the last n values takes their place
Ifx(c, n) ==
  /\ CanWrap(n)
  /\ args' = Append(Kept(n), ifx(c, Taken(n)))
  /\ out' = NotRun
  /\ UNCHANGED <<hist, run>>

\* mapx(the last n values, item => item) takes their place
Mapx(n) ==
  /\ CanWrap(n)
  /\ args' = Append(Kept(n), mapx(Arr(Taken(n)), "node"))
  /\ out' = NotRun
  /\ UNCHANGED <<hist, run>>

\* the node built last
Current == args[Len(args)]

\* Current.render()
RenderCall ==
  /\ args # <<>>
  /\ IsNode(Current)
  /\ out = NotRun
  /\ out' = Render(Current)
  /\ UNCHANGED <<args, hist, run>>

\* the tree is dropped after use
Discard ==
  /\ args # <<>>
  /\ args' = <<>>
  /\ out' = NotRun
  /\ UNCHANGED <<hist, run>>

Next ==
  \/ \E v \in TextInputs : Text(v)
  \/ \E n \in AttrNames, v \in AttrValues : Attr(n, v)
  \/ \E f \in Foreign : PassForeign(f)
  \/ \E tag \in Tags, n \in 0..MaxChildren : El(tag, n)
  \/ \E tag \in Tags, n \in 0..MaxChildren : ElVoid(tag, n)
  \/ \E n \in 0..MaxChildren : Group(n)
  \/ \E c \in BOOLEAN, n \in 0..MaxChildren : Ifx(c, n)
  \/ \E n \in 0..MaxChildren : Mapx(n)
  \/ RenderCall
  \/ Discard

Spec == Init /\ [][Next]_vars

---------------------------------------------------------------------------
(* SpecCalls: single calls on string inputs, each result fed to the next *)

Alphabet == {"&", "<", ">", "\"", "'", "x"}

RECURSIVE StringsOfLen(_)
StringsOfLen(n) ==
  IF n = 0 THEN {<<>>}
  ELSE {<<c>> \o s : c \in Alphabet, s \in StringsOfLen(n - 1)}

Strings == UNION {StringsOfLen(n) : n \in 0..MaxLen}

\* what a caller passes where a string is expected: a string, an absent
\* value, or a value of another type
CallInputs == {Str(s) : s \in Strings} \cup {Null, Undefined, Num(7)}
CallNames == {Str(<<>>), Str(<<"i", "d">>), Str(<<"\"">>), Null}
CallTags == {Str(<<"d", "i", "v">>), Str(<<>>), Null}

Call(op, a, r) == [op |-> op, args |-> a, ret |-> r]

\* the result of the call made last
Prev == hist[Len(hist)].ret

CanChain == hist # <<>> /\ Len(hist) < MaxChain /\ Prev # Thrown

InitCalls == Init

\* escapeHtml(v)
EscapeHtmlCall(v) ==
  /\ hist = <<>>
  /\ hist' = <<Call("escapeHtml", <<v>>, escapeHtml(v))>>
  /\ UNCHANGED <<args, out, run>>

\* escapeHtml of the previous result
EscapeHtmlAgain ==
  /\ CanChain
  /\ hist' = Append(hist, Call("escapeHtml", <<Prev>>, escapeHtml(Prev)))
  /\ UNCHANGED <<args, out, run>>

\* text(v)
TextCall(v) ==
  /\ hist = <<>>
  /\ hist' = <<Call("text", <<v>>, text(v))>>
  /\ UNCHANGED <<args, out, run>>

\* raw(v)
RawCall(v) ==
  /\ hist = <<>>
  /\ hist' = <<Call("raw", <<v>>, raw(v))>>
  /\ UNCHANGED <<args, out, run>>

\* attr(n, v)
AttrCall(n, v) ==
  /\ hist = <<>>
  /\ hist' = <<Call("attr", <<n, v>>, attr(n, v))>>
  /\ UNCHANGED <<args, out, run>>

\* new NodeElement(isVoid, tag, previous result)
ElementOfPrev(isVoid, tag) ==
  /\ CanChain
  /\ hist' = Append(hist, Call("NodeElement", <<Bool(isVoid), tag, Prev>>,
                               NodeElement(isVoid, tag, <<Prev>>)))
  /\ UNCHANGED <<args, out, run>>

\* render() of the previous result
RenderPrev ==
  /\ CanChain
  /\ hist' = Append(hist, Call("render", <<Prev>>, Render(Prev)))
  /\ UNCHANGED <<args, out, run>>

\* the caller drops the results and starts again
StartOver ==
  /\ hist # <<>>
  /\ hist' = <<>>
  /\ UNCHANGED <<args, out, run>>

NextCalls ==
  \/ \E v \in CallInputs : EscapeHtmlCall(v)
  \/ EscapeHtmlAgain
  \/ \E v \in CallInputs : TextCall(v)
  \/ \E v \in CallInputs : RawCall(v)
  \/ \E n \in CallNames, v \in CallInputs : AttrCall(n, v)
  \/ \E isVoid \in BOOLEAN, tag \in CallTags : ElementOfPrev(isVoid, tag)
  \/ RenderPrev
  \/ StartOver

SpecCalls == InitCalls /\ [][NextCalls]_vars

---------------------------------------------------------------------------
(* Properties of Spec *)

RECURSIVE Flatten(_)
\* the concatenation of a sequence of strings
Flatten(ss) == IF ss = <<>> THEN <<>> ELSE Head(ss) \o Flatten(Tail(ss))

\* the renders of the nodes of ns, concatenated in the order of ns (a value
\* that is no string is written as JavaScript's + writes it); Thrown when
\* one of them raises
Joined(ns) ==
  IF \E i \in 1..Len(ns) : Render(ns[i]) = Thrown THEN Thrown
  ELSE Str(Flatten([i \in 1..Len(ns) |-> ToString(Render(ns[i]))]))

IsAttr(c) == c.k = "attr"
IsContent(c) == c.k \in {"el", "text"}
AttrsOf(e) == SelectSeq(e.children, IsAttr)
ContentOf(e) == SelectSeq(e.children, IsContent)

\* out holds Current.render(), and Current is an element
RenderedElement == out # NotRun /\ Current.k = "el"

EmptyTag == Str(<<>>)

EndsWith(s, t) ==
  Len(t) <= Len(s) /\ SubSeq(s, Len(s) - Len(t) + 1, Len(s)) = t

\* "<" tag attrs ">" content "</" tag ">"
FullMarkup(tag, a, c) ==
  IF a = Thrown \/ c = Thrown THEN Thrown
  ELSE Str(<<"<">> \o ToString(tag) \o a.s \o <<">">> \o c.s
           \o <<"<", "/">> \o ToString(tag) \o <<">">>)

\* "<" tag attrs ">"
OpenMarkup(tag, a) ==
  IF a = Thrown THEN Thrown
  ELSE Str(<<"<">> \o ToString(tag) \o a.s \o <<">">>)

\* C1: a non-void element with a non-empty tag renders as "<" tag A ">" C
\* "</" tag ">", A the renders of its attribute children and C the renders
\* of its element and text children, each in child-list order, however the
\* two kinds are interleaved in the child list.
C1_MixedOrder ==
  (RenderedElement /\ ~Current.isVoid /\ Current.name # EmptyTag)
    => out = FullMarkup(Current.name, Joined(AttrsOf(Current)),
                        Joined(ContentOf(Current)))

\* an element rendered whose children are attribute, content, attribute,
\* the two attributes rendering differently
C1_Witness ==
  /\ RenderedElement /\ ~Current.isVoid /\ Current.name # EmptyTag
  /\ Len(Current.children) = 3
  /\ IsAttr(Current.children[1]) /\ IsContent(Current.children[2])
  /\ IsAttr(Current.children[3])
  /\ Render(Current.children[1]) # Render(Current.children[3])
  /\ Render(Current.children[1]) # Str(<<>>)
  /\ Render(Current.children[3]) # Str(<<>>)
  /\ Render(Current.children[2]) # Str(<<>>)

\* the element e without its element and text children
WithoutContent(e) ==
  NodeElement(e.isVoid, e.name, SelectSeq(e.children, LAMBDA c : ~IsContent(c)))

\* C2, as claimed: a void element, whatever its tag, renders no closing tag
\* and nothing of its content children: its output is the output of the same
\* element without them.
C2_VoidAnyTag ==
  (RenderedElement /\ Current.isVoid /\ out # Thrown)
    => /\ out = Render(WithoutContent(Current))
       /\ ~EndsWith(ToString(out), <<"<", "/">> \o ToString(Current.name) \o <<">">>)

\* C2, amended: a void element with a non-empty tag renders as "<" tag A ">"
\* and nothing else, whatever its children.
C2_VoidNonEmptyTag ==
  (RenderedElement /\ Current.isVoid /\ Current.name # EmptyTag)
    => out = OpenMarkup(Current.name, Joined(AttrsOf(Current)))

\* a void element with a non-empty tag rendered, with an attribute child and
\* a content child that render to non-empty strings
C2_Witness ==
  /\ RenderedElement /\ Current.isVoid /\ Current.name # EmptyTag
  /\ \E i \in 1..Len(Current.children) :
       IsContent(Current.children[i]) /\ Render(Current.children[i]) # Str(<<>>)
  /\ \E i \in 1..Len(Current.children) :
       IsAttr(Current.children[i]) /\ Render(Current.children[i]) # Str(<<>>)

\* C3: an element with the empty tag renders as the concatenation of the
\* renders of its element and text children, in order, with no tag markup
\* and no attribute markup.
C3_EmptyTagTransparent ==
  (RenderedElement /\ Current.name = EmptyTag)
    => out = Joined(ContentOf(Current))

\* an empty-tag element rendered that has a content child and an attribute
\* child that renders to a non-empty string
C3_Witness ==
  /\ RenderedElement /\ Current.name = EmptyTag
  /\ out # Str(<<>>)
  /\ \E i \in 1..Len(Current.children) :
       IsAttr(Current.children[i]) /\ Render(Current.children[i]) # Str(<<>>)

RECURSIVE StripForeign(_)
\* the tree v with every child that is no node removed, at every depth
StripForeign(v) ==
  IF v.k # "el" THEN v
  ELSE LET kept == SelectSeq(v.children, IsNode)
       IN  NodeElement(v.isVoid, v.name,
                       [i \in 1..Len(kept) |-> StripForeign(kept[i])])

\* C4: children that are no nodes contribute nothing and raise nothing: an
\* element renders as the same element with those children removed.
C4_ForeignSkipped ==
  RenderedElement
    => /\ out # Thrown
       /\ out = Render(StripForeign(Current))

\* an element rendered that has a foreign child before a content child and
\* a nested element holding a foreign child
C4_Witness ==
  /\ RenderedElement
  /\ \E i, j \in 1..Len(Current.children) :
       /\ i < j
       /\ ~IsNode(Current.children[i])
       /\ Current.children[j].k = "el"
       /\ \E m \in 1..Len(Current.children[j].children) :
            ~IsNode(Current.children[j].children[m])

\* the fragment of one attribute: " " name "=\"" escaped value "\"", nothing
\* for the empty name
Fragment(a) ==
  IF a.name = Str(<<>>) THEN <<>>
  ELSE <<" ">> \o ToString(a.name) \o <<"=", "\"">>
       \o (IF a.value.k = "str" THEN Flatten([i \in 1..Len(a.value.s) |->
                 CASE a.value.s[i] = "&" -> EntAmp
                   [] a.value.s[i] = "<" -> EntLt
                   [] a.value.s[i] = ">" -> EntGt
                   [] a.value.s[i] = "\"" -> EntQuot
                   [] a.value.s[i] = "'" -> EntApos
                   [] OTHER -> <<a.value.s[i]>>])
           ELSE <<>>)
       \o <<"\"">>

\* C11: attributes of one name are neither merged nor dropped: an element
\* with a tag renders one fragment for each attribute child, in child-list
\* order, each with its own value, right after the tag.
C11_NoDedup ==
  (RenderedElement /\ Current.name # EmptyTag)
    => StartsWith(ToString(out),
         <<"<">> \o ToString(Current.name)
           \o Flatten([i \in 1..Len(AttrsOf(Current)) |-> Fragment(AttrsOf(Current)[i])])
           \o <<">">>)

\* an element rendered whose three children are attributes of one name, the
\* first and the last with the same value
C11_Witness ==
  /\ RenderedElement /\ Current.name # EmptyTag
  /\ Len(Current.children) = 3
  /\ \A i \in 1..3 : IsAttr(Current.children[i])
                       /\ Current.children[i].name = Current.children[1].name
  /\ Current.children[1] = Current.children[3]
  /\ Current.children[1] # Current.children[2]

RECURSIVE WithoutWrappedAttrs(_)
\* the tree v without the attribute children of its empty-tag elements, at
\* every depth
WithoutWrappedAttrs(v) ==
  IF v.k # "el" THEN v
  ELSE LET kept == IF v.name = EmptyTag
                     THEN SelectSeq(v.children, LAMBDA c : ~IsAttr(c))
                     ELSE v.children
       IN  NodeElement(v.isVoid, v.name,
                       [i \in 1..Len(kept) |-> WithoutWrappedAttrs(kept[i])])

\* C17: an attribute inside a transparent wrapper (group, ifx, mapx) is
\* discarded: an element with a tag renders as if the wrappers below it held
\* no attributes, and its attribute string holds its own attribute children
\* only.
C17_WrappedAttrsDiscarded ==
  (RenderedElement /\ Current.name # EmptyTag)
    => /\ out = Render(WithoutWrappedAttrs(Current))
       /\ Joined(AttrsOf(Current)) # Thrown
       /\ StartsWith(ToString(out),
            <<"<">> \o ToString(Current.name) \o Joined(AttrsOf(Current)).s \o <<">">>)

\* an element with a tag rendered, whose child is a wrapper holding a wrapper
\* holding an attribute that renders to a non-empty string
C17_Witness ==
  /\ RenderedElement /\ Current.name # EmptyTag
  /\ \E i \in 1..Len(Current.children) :
       LET g == Current.children[i]
       IN  /\ g.k = "el" /\ g.name = EmptyTag
           /\ \E j \in 1..Len(g.children) :
                LET h == g.children[j]
                IN  /\ h.k = "el" /\ h.name = EmptyTag
                    /\ \E m \in 1..Len(h.children) :
                         IsAttr(h.children[m]) /\ Render(h.children[m]) # Str(<<>>)

---------------------------------------------------------------------------
(* Properties of SpecCalls *)

Specials == {"&", "<", ">", "\"", "'"}

\* the entity of one character, the character itself when it has none
EntityOf(c) ==
  CASE c = "&" -> EntAmp
    [] c = "<" -> EntLt
    [] c = ">" -> EntGt
    [] c = "\"" -> EntQuot
    [] c = "'" -> EntApos
    [] OTHER -> <<c>>

\* one pass over s from left to right, each character mapped on its own
OnePass(s) == Flatten([i \in 1..Len(s) |-> EntityOf(s[i])])

\* s with every "&" written as "&amp;"
AmpDoubled(s) ==
  Flatten([i \in 1..Len(s) |-> IF s[i] = "&" THEN EntAmp ELSE <<s[i]>>])

HasSpecial(s) == \E i \in 1..Len(s) : s[i] \in Specials

IsStr(v) == v.k = "str"
IsAbsent(v) == v.k \in {"null", "undefined"}

\* the calls of the chain
Calls == 1..Len(hist)

\* C5, as claimed: no call raises; escapeHtml and render return a string and
\* a constructor returns a node, whatever the input.
C5_NeverFails ==
  \A i \in Calls :
    /\ hist[i].ret # Thrown
    /\ hist[i].op \in {"escapeHtml", "render"} => IsStr(hist[i].ret)
    /\ hist[i].op \in {"text", "raw", "attr", "NodeElement"} => IsNode(hist[i].ret)

RECURSIVE AbsentAsEmpty(_)
\* the node v with "" in the place of every absent payload, attribute name,
\* attribute value and tag
AbsentAsEmpty(v) ==
  LET E(x) == IF IsAbsent(x) THEN Str(<<>>) ELSE x
  IN  CASE v.k = "text" -> NodeText(E(v.text))
        [] v.k = "attr" -> NodeAttribute(E(v.name), E(v.value))
        [] v.k = "el" ->
             NodeElement(v.isVoid, E(v.name),
                         [i \in 1..Len(v.children) |-> AbsentAsEmpty(v.children[i])])
        [] OTHER -> v

\* C6, as claimed: a node built with an absent string renders, alone and as a
\* child, as the same node built with "" in that place.
C6_AbsentAsEmpty ==
  \A i \in Calls :
    hist[i].op = "render"
      => hist[i].ret = Render(AbsentAsEmpty(hist[i].args[1]))

\* C7: escapeHtml of a string is the one-pass, character-by-character
\* substitution of the five characters by their entities.
C7_OnePass ==
  \A i \in Calls :
    (hist[i].op = "escapeHtml" /\ IsStr(hist[i].args[1]))
      => hist[i].ret = Str(OnePass(hist[i].args[1].s))

\* escapeHtml called on a string that holds an entity written by an earlier
\* call, and on a string with an ampersand next to another special character
C7_Witness ==
  /\ Len(hist) = 2
  /\ hist[1].op = "escapeHtml" /\ hist[2].op = "escapeHtml"
  /\ hist[1].args[1] = Str(<<"&", "<">>)
  /\ hist[2].args[1] = Str(EntAmp \o EntLt)

\* C8: escapeHtml applied to its own result s' = escapeHtml(s) returns s'
\* with every "&" written as "&amp;"; the two results differ exactly when s
\* holds one of the five characters.
C8_NotIdempotent ==
  \A i \in Calls :
    (/\ i > 1
     /\ hist[i].op = "escapeHtml" /\ hist[i - 1].op = "escapeHtml"
     /\ IsStr(hist[i - 1].args[1]))
      => /\ hist[i].ret = Str(AmpDoubled(hist[i - 1].ret.s))
         /\ (hist[i].ret = hist[i - 1].ret) <=> ~HasSpecial(hist[i - 1].args[1].s)

\* escapeHtml applied twice to a string with a special character that is no
\* ampersand, and the results differ
C8_Witness ==
  /\ Len(hist) >= 2
  /\ hist[1].op = "escapeHtml" /\ hist[2].op = "escapeHtml"
  /\ hist[1].args[1] = Str(<<"x", "'">>)
  /\ hist[2].ret # hist[1].ret

\* escapeHtml(v) as the contract gives it: the one pass for a string, "" for
\* an absent value, a raise for any other value
EscapedRef(v) ==
  IF IsStr(v) THEN Str(OnePass(v.s))
  ELSE IF IsAbsent(v) THEN Str(<<>>)
  ELSE Thrown

\* C9: an attribute renders as "" when its name is "", and otherwise as
\* " " name "=\"" escapeHtml(value) "\"" (raising when escapeHtml(value)
\* raises): the value is escaped at render time.
C9_AttributeRender ==
  \A i \in Calls :
    (hist[i].op = "render" /\ hist[i].args[1].k = "attr")
      => LET a == hist[i].args[1]
             e == EscapedRef(a.value)
         IN  hist[i].ret =
               IF a.name = Str(<<>>) THEN Str(<<>>)
               ELSE IF e = Thrown THEN Thrown
               ELSE Str(<<" ">> \o ToString(a.name) \o <<"=", "\"">> \o e.s \o <<"\"">>)

\* an attribute with a name and with a double quote and an ampersand in its
\* value is rendered
C9_Witness ==
  /\ Len(hist) = 2
  /\ hist[1].op = "attr" /\ hist[2].op = "render"
  /\ hist[1].args = <<Str(<<"i", "d">>), Str(<<"\"", "&">>)>>
  /\ IsStr(hist[2].ret)

RECURSIVE Wraps(_, _)
\* n is the node t, or a non-void element with a string tag whose only child
\* wraps t
Wraps(n, t) ==
  \/ n = t
  \/ /\ n.k = "el" /\ ~n.isVoid /\ IsStr(n.name)
     /\ Len(n.children) = 1
     /\ Wraps(n.children[1], t)

RECURSIVE Wrapped(_, _, _)
\* the markup of n, which wraps t, with p written in the place of t
Wrapped(n, t, p) ==
  IF n = t THEN p
  ELSE IF n.name = Str(<<>>) THEN Wrapped(n.children[1], t, p)
  ELSE <<"<">> \o n.name.s \o <<">">> \o Wrapped(n.children[1], t, p)
       \o <<"<", "/">> \o n.name.s \o <<">">>

\* C10: text(s) renders as escapeHtml(s) and raw(s) as s, for a string s,
\* and a text node inside non-void elements renders there as its payload
\* between their tags, not escaped again.
C10_TextAndRaw ==
  \A i \in Calls :
    (/\ hist[i].op = "render"
     /\ hist[1].op \in {"text", "raw"}
     /\ IsStr(hist[1].args[1])
     /\ Wraps(hist[i].args[1], hist[1].ret))
      => LET s == hist[1].args[1].s
             payload == IF hist[1].op = "text" THEN OnePass(s) ELSE s
         IN  hist[i].ret = Str(Wrapped(hist[i].args[1], hist[1].ret, payload))

\* text("<&") wrapped in a div and rendered
C10_Witness ==
  /\ Len(hist) = 3
  /\ hist[1].op = "text" /\ hist[1].args[1] = Str(<<"<", "&">>)
  /\ hist[2].op = "NodeElement" /\ ~hist[2].ret.isVoid
  /\ hist[2].ret.name = Str(<<"d", "i", "v">>)
  /\ hist[3].op = "render" /\ IsStr(hist[3].ret)


---------------------------------------------------------------------------
(* The element helper catalogue *)

div(children) == el(Str(<<"d", "i", "v">>), children)
span(children) == el(Str(<<"s", "p", "a", "n">>), children)
h1(children) == el(Str(<<"h", "1">>), children)
h2(children) == el(Str(<<"h", "2">>), children)
h3(children) == el(Str(<<"h", "3">>), children)
h4(children) == el(Str(<<"h", "4">>), children)
h5(children) == el(Str(<<"h", "5">>), children)
h6(children) == el(Str(<<"h", "6">>), children)
p(children) == el(Str(<<"p">>), children)
button(children) == el(Str(<<"b", "u", "t", "t", "o", "n">>), children)
a(children) == elVoid(Str(<<"a">>), children)
img(children) == elVoid(Str(<<"i", "m", "g">>), children)
input(children) == elVoid(Str(<<"i", "n", "p", "u", "t">>), children)

Helpers == {"div", "span", "h1", "h2", "h3", "h4", "h5", "h6", "p", "button",
            "a", "img", "input"}

\* the call h(...children) of the helper exported under the name h
Helper(h, children) ==
  CASE h = "div" -> div(children)
    [] h = "span" -> span(children)
    [] h = "h1" -> h1(children)
    [] h = "h2" -> h2(children)
    [] h = "h3" -> h3(children)
    [] h = "h4" -> h4(children)
    [] h = "h5" -> h5(children)
    [] h = "h6" -> h6(children)
    [] h = "p" -> p(children)
    [] h = "button" -> button(children)
    [] h = "a" -> a(children)
    [] h = "img" -> img(children)
    [] h = "input" -> input(children)

---------------------------------------------------------------------------
(* SpecBuilders: single calls of the helpers that build nodes from lists,
   each result then rendered *)

RECURSIVE ListsOver(_, _)
\* the sequences of length n over the set S
ListsOver(S, n) ==
  IF n = 0 THEN {<<>>}
  ELSE {<<x>> \o xs : x \in S, xs \in ListsOver(S, n - 1)}

\* the sequences of length at most MaxChildren over S
ListsUpTo(S) == UNION {ListsOver(S, n) : n \in 0..MaxChildren}

\* the nodes a caller passes in a rest parameter: a text, an attribute, an
\* element with content, and an absent child
BuilderNodes == {raw(Str(<<"x">>)),
                 attr(Str(<<"i", "d">>), Str(<<"\"">>)),
                 el(Str(<<"l", "i">>), <<raw(Str(<<"&">>))>>),
                 Null}

\* the items a caller maps to text
TextItems == {Str(<<"<">>), Str(<<"x">>), Null}

\* the item arrays passed with the mapping function fn, and a value that is
\* no array
ItemsFor(fn) ==
  {Arr(xs) : xs \in ListsUpTo(IF fn = "node" THEN BuilderNodes ELSE TextItems)}
    \cup {Null}

\* the arguments a caller passes to classx: strings, maps from keys to
\* values, and values of other types
ClassArgs == {Str(<<"b">>), Str(<<>>),
              Dict(<<<<<<"o", "n">>, Bool(TRUE)>>, <<<<"o", "f", "f">>, Bool(FALSE)>>>>),
              Dict(<<<<<<"s">>, Str(<<"y">>)>>, <<<<"m">>, Dict(<<>>)>>, <<<<"t">>, Bool(TRUE)>>>>),
              Null, Undefined, Num(7), Arr(<<Str(<<"z">>)>>)}

\* ifx(condition, ...nodes)
IfxCall(condition, nodes) ==
  /\ hist = <<>>
  /\ hist' = <<Call("ifx", <<Bool(condition)>> \o nodes, ifx(condition, nodes))>>
  /\ UNCHANGED <<args, out, run>>

\* mapx(items, fn)
MapxCall(items, fn) ==
  /\ hist = <<>>
  /\ hist' = <<Call("mapx", <<items, fn>>, mapx(items, fn))>>
  /\ UNCHANGED <<args, out, run>>

\* classx(...classes)
ClassxCall(classes) ==
  /\ hist = <<>>
  /\ hist' = <<Call("classx", classes, classx(classes))>>
  /\ UNCHANGED <<args, out, run>>

\* h(...children) for a helper h of the catalogue
HelperCall(h, children) ==
  /\ hist = <<>>
  /\ hist' = <<Call(h, children, Helper(h, children))>>
  /\ UNCHANGED <<args, out, run>>

NextBuilders ==
  \/ \E condition \in BOOLEAN, nodes \in ListsUpTo(BuilderNodes) : IfxCall(condition, nodes)
  \/ \E fn \in MapFns : \E items \in ItemsFor(fn) : MapxCall(items, fn)
  \/ \E classes \in ListsUpTo(ClassArgs) : ClassxCall(classes)
  \/ \E h \in Helpers, children \in ListsUpTo(BuilderNodes) : HelperCall(h, children)
  \/ RenderPrev
  \/ StartOver

SpecBuilders == Init /\ [][NextBuilders]_vars

---------------------------------------------------------------------------
(* Properties of SpecBuilders *)

\* the first call was op and its result was rendered next
BuiltAndRendered(op) ==
  /\ Len(hist) >= 2
  /\ hist[1].op = op
  /\ hist[2].op = "render"

\* C12: ifx(true, ...ns).render() is group(...ns).render(), and
\* ifx(false, ...ns).render() is the empty string whatever ns holds.
C12_IfxIsGroup ==
  BuiltAndRendered("ifx") =>
    LET condition == hist[1].args[1].b
        ns == Tail(hist[1].args)
    IN  hist[2].ret = IF condition THEN Render(group(ns)) ELSE Str(<<>>)

\* ifx(false, ...ns) was rendered for an ns that renders to a non-empty
\* string under group, and ifx(true, ...ns) would be non-empty
C12_Witness ==
  /\ BuiltAndRendered("ifx")
  /\ ~hist[1].args[1].b
  /\ Len(hist[1].args) > MaxChildren
  /\ Render(group(Tail(hist[1].args))) \notin {Thrown, Str(<<>>)}
  /\ hist[2].ret = Str(<<>>)

\* C13: for a mapping function that returns content nodes, mapx(items, fn)
\* renders as the renders of fn(item) concatenated in the order of the items,
\* nothing added; no items render as the empty string.
C13_MapxInOrder ==
  (/\ BuiltAndRendered("mapx")
   /\ hist[1].args[1].k = "array"
   /\ \A i \in 1..Len(hist[1].args[1].items) :
        IsContent(ApplyFn(hist[1].args[2], hist[1].args[1].items[i])))
    => LET items == hist[1].args[1].items
           fn == hist[1].args[2]
       IN  /\ hist[2].ret =
                Str(Flatten([i \in 1..Len(items) |-> Render(ApplyFn(fn, items[i])).s]))
           /\ items = <<>> => hist[2].ret = Str(<<>>)

\* mapx over items whose nodes render differently was rendered, the mapping
\* function wrapping each item in an element
C13_Witness ==
  /\ BuiltAndRendered("mapx")
  /\ hist[1].args[2] = "li"
  /\ hist[1].args[1].k = "array"
  /\ Len(hist[1].args[1].items) = MaxChildren
  /\ hist[1].args[1].items[1] # hist[1].args[1].items[MaxChildren]
  /\ Len(hist[2].ret.s) > MaxChildren

\* what the argument c contributes to the class list: a string itself, a map
\* its keys whose value is the boolean true, any other argument nothing
Contribution(c) ==
  IF c.k = "str" THEN <<c.s>>
  ELSE IF c.k = "dict"
    THEN LET on == SelectSeq(c.pairs, LAMBDA pr : pr[2] = Bool(TRUE))
         IN  [i \in 1..Len(on) |-> on[i][1]]
  ELSE <<>>

\* the strings of list with one space between neighbours
SpaceJoined(list) ==
  IF list = <<>> THEN <<>>
  ELSE list[1] \o Flatten([i \in 1..(Len(list) - 1) |-> <<" ">> \o list[i + 1]])

Contains(s, t) ==
  \E i \in 0..(Len(s) - Len(t)) : SubSeq(s, i + 1, i + Len(t)) = t

\* C19: of the catalogue only img and input build void elements; every other
\* helper, the anchor helper a among them, builds a non-void element, so
\* a(c) renders with the render of a content child c followed by "</a>".
C19_OnlyImgInputVoid ==
  /\ (hist # <<>> /\ hist[1].op \in Helpers)
       => hist[1].ret.isVoid = (hist[1].op \in {"img", "input"})
  /\ BuiltAndRendered("a")
       => \A i \in 1..Len(hist[1].args) :
            IsContent(hist[1].args[i])
              => Contains(hist[2].ret.s,
                          Render(hist[1].args[i]).s \o <<"<", "/", "a", ">">>)

---------------------------------------------------------------------------
(* SpecRender: render() of one tree, one step of one caller at a time *)

\* the children of the trees rendered: an escaped text, an attribute with an
\* absent value, and an absent child
RenderLeaves == {text(Str(<<"<">>)), attr(Str(<<"i", "d">>), Null), Null}

\* elements that hold elements
Nested ==
  {group(<<el(Str(<<"l", "i">>), <<x>>)>>) : x \in RenderLeaves}
    \cup {elVoid(Str(<<"i", "m", "g">>), <<x, y>>) : x, y \in RenderLeaves}

\* the trees rendered: every element over a list of leaves, and elements
\* over a leaf and an element that holds elements
Trees ==
  {NodeElement(v, tag, xs) : v \in BOOLEAN, tag \in Tags, xs \in ListsUpTo(RenderLeaves)}
    \cup {NodeElement(v, tag, <<x, e>>) :
            v \in BOOLEAN, tag \in Tags, x \in RenderLeaves, e \in Nested}

\* the tree is constructed: from here on its nodes are what the callers read
Build(t) ==
  /\ args = <<>>
  /\ args' = <<t>>
  /\ UNCHANGED <<out, hist, run>>

RECURSIVE NodeAt(_, _)
\* the node reached from node by the child positions of path
NodeAt(node, path) ==
  IF path = <<>> THEN node ELSE NodeAt(node.children[Head(path)], Tail(path))

\* the activation of render() on the node at path: the loop position and the
\* two accumulators of NodeElement.render
Frame(path) ==
  [path |-> path, i |-> 1, childrenAttributes |-> Str(<<>>), childrenNodes |-> Str(<<>>)]

\* the innermost activation of caller c and the node it runs on
Top(c) == run[c].stack[Len(run[c].stack)]
This(c) == NodeAt(Current, Top(c).path)

\* caller c is inside the loop over this.children, at the child Child(c)
InLoop(c) ==
  /\ run[c].stack # <<>>
  /\ This(c).k = "el"
  /\ Top(c).i <= Len(This(c).children)
Child(c) == This(c).children[Top(c).i]

\* a mutation: the loop stays at its child
AdvanceNot(frame) == frame

\* the loop moves to the next child
Advance(frame) == [frame EXCEPT !.i = @ + 1]

\* the value render() returns on node from the activation frame
Returned(node, frame) ==
  CASE node.k = "text" -> NodeTextRender(node)
    [] node.k = "attr" -> NodeAttributeRender(node)
    [] node.k = "el" -> ElementMarkup(node.isVoid, node.name,
                                      frame.childrenAttributes, frame.childrenNodes)

\* the calling activation after child.render() returned r: r is added to the
\* accumulator of the child's class, and the loop moves on
Resumed(frame, child, r) ==
  Advance([frame EXCEPT
             !.childrenAttributes = IF IsAttributeChild(child) THEN Add(@, r) ELSE @,
             !.childrenNodes = IF IsContentChild(child) THEN Add(@, r) ELSE @])

\* caller c takes a step while another caller's call is under way
Overlaps(c) == \E d \in Callers \ {c} : run[d].stack # <<>>

\* the positions visited by c with the child at the loop position added
Visit(c) == Append(run[c].visited, Top(c).path \o <<Top(c).i>>)

\* a mutation: the accumulators are one buffer shared by the callers, so r
\* is also added to the content of the other callers' outermost activation
ResumeShared(rn, c, r) ==
  [d \in Callers |->
     IF d = c
       THEN [rn[c] EXCEPT
               !.stack = Append(SubSeq(@, 1, Len(@) - 2),
                                Resumed(@[Len(@) - 1],
                                        NodeAt(Current, @[Len(@) - 1].path)
                                          .children[@[Len(@) - 1].i], r)),
               !.overlap = @ \/ Overlaps(c)]
     ELSE IF rn[d].stack = <<>> THEN rn[d]
     ELSE [rn[d] EXCEPT !.stack[1].childrenNodes = Add(@, r)]]

\* the state of the callers after r is returned to the activation that
\* called render() on the child: only c's own activation changes
Resume(rn, c, r) ==
  [rn EXCEPT
     ![c].stack = Append(SubSeq(@, 1, Len(@) - 2),
                         Resumed(@[Len(@) - 1],
                                 NodeAt(Current, @[Len(@) - 1].path)
                                   .children[@[Len(@) - 1].i], r)),
     ![c].overlap = @ \/ Overlaps(c)]

\* caller c calls render() on the tree
Begin(c) ==
  /\ args # <<>>
  /\ run[c].stack = <<>>
  /\ run' = [run EXCEPT ![c] = [Idle EXCEPT !.stack = <<Frame(<<>>)>>]]
  /\ UNCHANGED <<args, out, hist>>

\* the child is neither an attribute nor content: the loop passes over it
Skip(c) ==
  /\ InLoop(c)
  /\ ~IsAttributeChild(Child(c)) /\ ~IsContentChild(Child(c))
  /\ run' = [run EXCEPT ![c].stack[Len(run[c].stack)] = Advance(@),
                        ![c].visited = Visit(c),
                        ![c].overlap = @ \/ Overlaps(c)]
  /\ UNCHANGED <<args, out, hist>>

\* the child is an attribute or content: child.render() is called
Descend(c) ==
  /\ InLoop(c)
  /\ IsAttributeChild(Child(c)) \/ IsContentChild(Child(c))
  /\ run' = [run EXCEPT ![c].stack = Append(@, Frame(Top(c).path \o <<Top(c).i>>)),
                        ![c].visited = Visit(c),
                        ![c].overlap = @ \/ Overlaps(c)]
  /\ UNCHANGED <<args, out, hist>>

\* the innermost render() of c returns: to the caller of render() on the
\* tree, or to the activation that called it on a child; a raise leaves
\* every activation
Return(c) ==
  /\ run[c].stack # <<>>
  /\ ~InLoop(c)
  /\ LET r == Returned(This(c), Top(c))
     IN  run' = IF Len(run[c].stack) = 1 \/ r = Thrown
                  THEN [run EXCEPT ![c].stack = <<>>,
                                   ![c].result = r,
                                   ![c].overlap = @ \/ Overlaps(c)]
                  ELSE Resume(run, c, r)
  /\ UNCHANGED <<args, out, hist>>

\* one step of the call of c
Step(c) == Skip(c) \/ Descend(c) \/ Return(c)

NextRender ==
  \/ \E t \in Trees : Build(t)
  \/ \E c \in Callers : Begin(c)
  \/ \E c \in Callers : Skip(c)
  \/ \E c \in Callers : Descend(c)
  \/ \E c \in Callers : Return(c)

SpecRender == Init /\ [][NextRender]_vars

\* a call under way keeps taking steps: render() is synchronous code that
\* runs to its return, and a scheduler of callers gives each its turn
SpecRenderFair == SpecRender /\ \A c \in Callers : WF_vars(Step(c))

---------------------------------------------------------------------------
(* Properties of SpecRender *)

\* caller c has a completed call
Completed(c) == run[c].stack = <<>> /\ run[c].result # NotRun

\* C15: render() only reads the tree: whatever the interleaving of the
\* callers' steps, no step changes the tree, and every call that completes
\* returns what a call running alone returns.
C15_ReadOnly ==
  [][/\ args # <<>> => args' = args
     /\ \A c \in Callers : Completed(c)' => run'[c].result = Render(Current')]_vars

\* both callers completed calls on a tree that holds an element, each having
\* taken steps while the other's call was under way, with a non-empty result
C15_Witness ==
  /\ \A c \in Callers : Completed(c) /\ run[c].overlap
  /\ \E i \in 1..Len(Current.children) : Current.children[i].k = "el"
  /\ \A c \in Callers : run[c].result = Render(Current) /\ Len(run[c].result.s) > MaxChildren

RECURSIVE ChildSlots(_, _)
\* the positions in the child lists of node and of the elements below it
\* that render() is called on, each as the path from the tree that leads
\* to it, under path
ChildSlots(node, path) ==
  IF node.k # "el" THEN {}
  ELSE UNION {{path \o <<i>>} \cup
                (IF IsAttributeChild(node.children[i]) \/ IsContentChild(node.children[i])
                   THEN ChildSlots(node.children[i], path \o <<i>>) ELSE {})
                : i \in 1..Len(node.children)}

\* no position occurs twice in seq
NoDup(seq) == \A i, j \in 1..Len(seq) : seq[i] = seq[j] => i = j

\* C16: render() always completes: a call under way visits no child twice,
\* has visited every child of every element once when it returns, and does
\* return.
C16_Completes ==
  /\ [](\A c \in Callers :
          /\ NoDup(run[c].visited)
          /\ Completed(c) =>
               {run[c].visited[i] : i \in 1..Len(run[c].visited)} = ChildSlots(Current, <<>>))
  /\ \A c \in Callers : (run[c].stack # <<>>) ~> Completed(c)

\* a call completed on a tree that holds an element that holds an element,
\* every child of the three visited
C16_Witness ==
  \E c \in Callers :
    /\ Completed(c)
    /\ \E i \in 1..Len(Current.children) :
         /\ Current.children[i].k = "el"
         /\ \E j \in 1..Len(Current.children[i].children) :
              /\ Current.children[i].children[j].k = "el"
              /\ <<i, j, 1>> \in {run[c].visited[m] : m \in 1..Len(run[c].visited)}
    /\ Len(run[c].visited) = Cardinality(ChildSlots(Current, <<>>))

---------------------------------------------------------------------------
(* Properties of SpecCalls: the characters of escaped output *)

\* the number of positions of s that hold the character ch
Count(s, ch) == Cardinality({i \in 1..Len(s) : s[i] = ch})

\* s holds none of < > " ' and each of its ampersands begins one of the
\* five entities
WellEscaped(s) ==
  /\ \A i \in 1..Len(s) : s[i] \notin {"<", ">", "\"", "'"}
  /\ \A i \in 1..Len(s) :
       s[i] = "&" => \E ch \in Specials :
                       /\ i + Len(EntityOf(ch)) - 1 <= Len(s)
                       /\ SubSeq(s, i, i + Len(EntityOf(ch)) - 1) = EntityOf(ch)

\* the name n holds a double quote
HasQuote(n) == IsStr(n) /\ Count(n.s, "\"") > 0

\* call i renders an attribute whose name holds no double quote and whose
\* value is a string or absent
RendersAttribute(i) ==
  /\ hist[i].op = "render" /\ hist[i].args[1].k = "attr"
  /\ ~HasQuote(hist[i].args[1].name)
  /\ IsStr(hist[i].args[1].value) \/ IsAbsent(hist[i].args[1].value)

\* C18, as claimed: escapeHtml of a string holds none of < > " ' and only
\* ampersands that begin an entity, and an attribute whose name holds no
\* double quote renders with exactly two double quotes whatever its value.
C18_TwoQuotes ==
  \A i \in Calls :
    /\ (hist[i].op = "escapeHtml" /\ IsStr(hist[i].args[1]))
         => IsStr(hist[i].ret) /\ WellEscaped(hist[i].ret.s)
    /\ RendersAttribute(i)
         => IsStr(hist[i].ret) /\ Count(hist[i].ret.s, "\"") = 2

\* C18, amended: escapeHtml of a string holds none of < > " ' and only
\* ampersands that begin an entity; an attribute whose name is not empty and
\* holds no double quote renders, for a string or absent value, with exactly
\* two double quotes, and an attribute with the empty name renders as the
\* empty string, with none.
C18_TwoQuotesNamed ==
  \A i \in Calls :
    /\ (hist[i].op = "escapeHtml" /\ IsStr(hist[i].args[1]))
         => IsStr(hist[i].ret) /\ WellEscaped(hist[i].ret.s)
    /\ RendersAttribute(i)
         => /\ IsStr(hist[i].ret)
            /\ Count(hist[i].ret.s, "\"") =
                 IF hist[i].args[1].name = Str(<<>>) THEN 0 ELSE 2

\* an attribute named id whose value holds a double quote and an ampersand
\* is rendered, and the result holds two double quotes
C18_Witness ==
  /\ Len(hist) = 2
  /\ RendersAttribute(2)
  /\ hist[2].args[1].name = Str(<<"i", "d">>)
  /\ IsStr(hist[2].args[1].value)
  /\ Count(hist[2].args[1].value.s, "\"") = 1
  /\ Count(hist[2].args[1].value.s, "&") = 1
  /\ Count(hist[2].ret.s, "\"") = 2

=========================================================================
